---- MODULE Spec2Model ----
(***************************************************************************)
(* Model of pair_sales_with_buys and PairedSale of                         *)
(* coinbase_pro_accounting.py: HIFO/FIFO tax-lot matching of SELL orders   *)
(* against the open BUY lots.                                              *)
(*                                                                         *)
(* Units.  A datetime is a number of seconds since 2020-01-01T00:00:00.    *)
(* A size is a number of half units of the asset (2 is 1.0, 3 is 1.5), so  *)
(* that every size of the model is exactly representable as a float and    *)
(* float arithmetic on it is exact.  A price is in dollars; proceeds, cost *)
(* basis and gains are size * price, hence in half dollars.                *)
(*                                                                         *)
(* The dicts of the input list are mutated in place by the code: `orders`  *)
(* holds the live objects, addressed by their position in the input list,  *)
(* and `given` keeps the values they had when the function was called.     *)
(***************************************************************************)
EXTENDS Integers, Sequences, FiniteSets, TLC

VARIABLES given, orders, year_to_accounting_method, max_year,
          orders_to_ignore, orders_to_process, original_total_buy_size,
          current_buys, paired_sales, pos, accounting_method,
          pc, error, result

vars == <<given, orders, year_to_accounting_method, max_year,
          orders_to_ignore, orders_to_process, original_total_buy_size,
          current_buys, paired_sales, pos, accounting_method,
          pc, error, result>>

----------------------------------------------------------------------------
(* Bounds and input domains *)

MaxOrders == 4

SecondsPerDay == 86400

Jan01_2020 == 0
Jun01_2020 == 152 * SecondsPerDay
Dec31_2020_noon == 365 * SecondsPerDay + 43200
Jan01_2021 == 366 * SecondsPerDay
Feb01_2021 == 397 * SecondsPerDay

BuyValues ==
    [time : {Jan01_2020, Jun01_2020, Jan01_2021}, side : {"BUY"},
     size : {2}, price : {100, 200}]

SellValues ==
    [time : {Dec31_2020_noon, Jan01_2021, Feb01_2021}, side : {"SELL"},
     size : {1, 2, 3}, price : {300}]

OrderValues == BuyValues \cup SellValues

\* orders as load_csv passes them on unchecked: any float as size, any
\* string as side
AnyValues ==
    [time : {Jan01_2020}, side : {"BUY"}, size : {-1, 0, 2}, price : {100, 200}]
    \cup [time : {Dec31_2020_noon, Feb01_2021}, side : {"SELL"},
          size : {-1, 0, 1, 3}, price : {300}]
    \cup [time : {Jun01_2020, Jan01_2021}, side : {"DEPOSIT"},
          size : {2}, price : {50}]

Years == {2020, 2021}

NoMethod == "none"

NoResult == <<>>

----------------------------------------------------------------------------
(* datetime *)

IsLeap(y) == (y % 4 = 0) /\ ((y % 100 # 0) \/ (y % 400 = 0))

DaysIn(y) == IF IsLeap(y) THEN 366 ELSE 365

RECURSIVE YearFrom(_, _)
YearFrom(y, d) == IF d < DaysIn(y) THEN y ELSE YearFrom(y + 1, d - DaysIn(y))

\* date_time.year
YearOf(t) == YearFrom(2020, t \div SecondsPerDay)

\* (a - b).days : timedelta normalises to whole days, rounding down
DeltaDays(a, b) == (a - b) \div SecondsPerDay

----------------------------------------------------------------------------
(* class Accounting *)

HIFO == "HIFO"
FIFO == "FIFO"

Accounting == {HIFO, FIFO}

----------------------------------------------------------------------------
(* sorting: list.sort and sorted are stable *)

\* key=lambda x: (x[0], x[1]['trade id'])
ChronoBefore(heap, a, b) ==
    \/ heap[a].time < heap[b].time
    \/ heap[a].time = heap[b].time /\ heap[a].id < heap[b].id

\* line 78 without reverse=True
PriceBefore_Ascending(heap, a, b) == heap[a].price < heap[b].price

\* line 78 by a sort that is not stable: a lot goes in front of the lots
\* of its price
PriceBefore_OrEqual(heap, a, b) == heap[a].price >= heap[b].price

\* key=lambda x: x[1]['price'], reverse=True
PriceBefore(heap, a, b) == heap[a].price > heap[b].price

Before(heap, key, a, b) ==
    IF key = HIFO THEN PriceBefore(heap, a, b) ELSE ChronoBefore(heap, a, b)

\* x goes in front of the first element that must come strictly after it
RECURSIVE Insert(_, _, _, _)
Insert(heap, key, s, x) ==
    IF s = <<>> THEN <<x>>
    ELSE IF Before(heap, key, x, Head(s)) THEN <<x>> \o s
    ELSE <<Head(s)>> \o Insert(heap, key, Tail(s), x)

RECURSIVE SortBy(_, _, _)
SortBy(heap, key, s) ==
    IF s = <<>> THEN <<>>
    ELSE Insert(heap, key, SortBy(heap, key, SubSeq(s, 1, Len(s) - 1)), s[Len(s)])

RECURSIVE SumSeq(_)
SumSeq(s) == IF s = <<>> THEN 0 ELSE Head(s) + SumSeq(Tail(s))

----------------------------------------------------------------------------
(* class PairedSale *)

\* the dict of an order, as deepcopy copies it
DictOf(o) == [id |-> o.id, side |-> o.side, size |-> o.size, price |-> o.price]

\* line 44 with >= for >
LongTerm_From365(sale_date, buy_date) == DeltaDays(sale_date, buy_date) >= 365

\* line 44
LongTerm(sale_date, buy_date) == DeltaDays(sale_date, buy_date) > 365

\* the address of an object that is no element of the input list: a copy
NotShared == 0

\* lines 32, 34 without deepcopy: the attribute is the argument itself
Deepcopy_SameObject(address) == address

\* lines 32, 34: the object deepcopy returns is a new one, whatever the
\* address of its argument
Deepcopy(address) == NotShared

\* sale_order and buy_order are the values of the arguments, sale_address
\* and buy_address where they live; the pair keeps the address of the
\* object each of its two attributes is
PairedSale(sale_date, sale_order, sale_address, buy_date, buy_order, buy_address, method) ==
    LET net_proceeds == sale_order.size * sale_order.price
        cost_basis == buy_order.size * buy_order.price
        gain_loss == net_proceeds - cost_basis
        long_term == LongTerm(sale_date, buy_date)
    IN [sale_date |-> sale_date,
        sale_order |-> sale_order,
        sale_object |-> Deepcopy(sale_address),
        buy_date |-> buy_date,
        buy_order |-> buy_order,
        buy_object |-> Deepcopy(buy_address),
        accounting_method |-> method,
        net_proceeds |-> net_proceeds,
        cost_basis |-> cost_basis,
        short_term_gains |-> IF long_term THEN 0 ELSE gain_loss,
        long_term_gains |-> IF long_term THEN gain_loss ELSE 0]

\* assert sale_order['size'] == buy_order['size']
PairedSaleAssert(sale_order, buy_order) == sale_order.size = buy_order.size

----------------------------------------------------------------------------
(* pair_sales_with_buys *)

\* the input list holds the chosen orders in this order: by size, then
\* price, then time, so that sales come in before and after the buys
ArrivesBefore(x, y) ==
    \/ x.size < y.size
    \/ x.size = y.size /\ x.price < y.price
    \/ x.size = y.size /\ x.price = y.price /\ x.time <= y.time

RECURSIVE ListOf(_)
ListOf(S) ==
    IF S = {} THEN <<>>
    ELSE LET v == CHOOSE x \in S : \A y \in S : ArrivesBefore(x, y)
         IN <<v>> \o ListOf(S \ {v})

\* the trade ids of an input list of n orders: unique, numbered along the
\* list or against it
IdSchemes(n) == {[i \in 1..n |-> i], [i \in 1..n |-> n + 1 - i]}

\* year_to_accounting_method is a dict: a year may have no entry
MethodMaps == [Years -> Accounting] \cup [{2020} -> Accounting]

InitWith(values) ==
    /\ \E S \in SUBSET values :
         /\ Cardinality(S) \in 1..MaxOrders
         /\ \E ids \in IdSchemes(Cardinality(S)) :
               LET list == ListOf(S)
               IN given = [i \in 1..Len(list) |->
                            [time |-> list[i].time, id |-> ids[i],
                             side |-> list[i].side, size |-> list[i].size,
                             price |-> list[i].price]]
    /\ orders = given
    /\ year_to_accounting_method \in MethodMaps
    /\ max_year \in Years
    /\ orders_to_ignore = <<>>
    /\ orders_to_process = <<>>
    /\ original_total_buy_size = 0
    /\ current_buys = <<>>
    /\ paired_sales = <<>>
    /\ pos = 0
    /\ accounting_method = NoMethod
    /\ pc = "start"
    /\ error = "none"
    /\ result = NoResult

\* called with orders whose sides are BUY or SELL and whose sizes are positive
Init == InitWith(OrderValues)

\* called with whatever load_csv has read
InitAny == InitWith(AnyValues)

\* line 61
AfterWindow(date_time, year) == YearOf(date_time) > year

\* line 54 left out: the orders in the order of the input list
SortedOrders_AsGiven(heap) == [i \in 1..Len(heap) |-> i]

\* line 54
SortedOrders(heap) == SortBy(heap, FIFO, [i \in 1..Len(heap) |-> i])

\* lines 54-66: sort chronologically, split off the orders after max_year
Partition ==
    /\ pc = "start"
    /\ LET sorted == SortedOrders(orders)
           Late(i) == AfterWindow(orders[i].time, max_year)
           Early(i) == ~Late(i)
           to_process == SelectSeq(sorted, Early)
       IN /\ orders_to_ignore' = SelectSeq(sorted, Late)
          /\ orders_to_process' = to_process
          /\ original_total_buy_size' =
                SumSeq([k \in 1..Len(to_process) |->
                          IF orders[to_process[k]].side = "BUY"
                          THEN orders[to_process[k]].size ELSE 0])
    /\ pos' = 1
    /\ pc' = "for"
    /\ UNCHANGED <<given, orders, year_to_accounting_method, max_year,
                   current_buys, paired_sales, accounting_method, error, result>>

\* the object o of the running iteration of the for loop
Cur == orders_to_process[pos]

InFor == pc = "for" /\ pos <= Len(orders_to_process)

\* line 72: assert o['side'] in ("BUY", "SELL")
SideAccepted(o) == o.side \in {"BUY", "SELL"}

\* line 72, the assertion fails
SideRejected ==
    /\ InFor
    /\ ~SideAccepted(orders[Cur])
    /\ pc' = "raised"
    /\ error' = "AssertionError"
    /\ UNCHANGED <<given, orders, year_to_accounting_method, max_year,
                   orders_to_ignore, orders_to_process, original_total_buy_size,
                   current_buys, paired_sales, pos, accounting_method, result>>

\* lines 73-74
AppendBuy ==
    /\ InFor
    /\ SideAccepted(orders[Cur])
    /\ orders[Cur].side = "BUY"
    /\ current_buys' = Append(current_buys, Cur)
    /\ pos' = pos + 1
    /\ UNCHANGED <<given, orders, year_to_accounting_method, max_year,
                   orders_to_ignore, orders_to_process, original_total_buy_size,
                   paired_sales, accounting_method, pc, error, result>>

\* line 76, when the year of the sale has no entry: KeyError
LookupFails ==
    /\ InFor
    /\ SideAccepted(orders[Cur])
    /\ orders[Cur].side # "BUY"
    /\ YearOf(orders[Cur].time) \notin DOMAIN year_to_accounting_method
    /\ pc' = "raised"
    /\ error' = "KeyError"
    /\ UNCHANGED <<given, orders, year_to_accounting_method, max_year,
                   orders_to_ignore, orders_to_process, original_total_buy_size,
                   current_buys, paired_sales, pos, accounting_method, result>>

\* lines 77-80 without the else branch: no sort for a FIFO sale
SortedForSale_OnlyHIFO(heap, method, buys) ==
    IF method = HIFO THEN SortBy(heap, method, buys) ELSE buys

\* lines 77-80
SortedForSale(heap, method, buys) == SortBy(heap, method, buys)

\* lines 76-80
SortForSale ==
    /\ InFor
    /\ SideAccepted(orders[Cur])
    /\ orders[Cur].side # "BUY"
    /\ YearOf(orders[Cur].time) \in DOMAIN year_to_accounting_method
    /\ LET method == year_to_accounting_method[YearOf(orders[Cur].time)]
       IN /\ accounting_method' = method
          /\ current_buys' = SortedForSale(orders, method, current_buys)
    /\ pc' = "while"
    /\ UNCHANGED <<given, orders, year_to_accounting_method, max_year,
                   orders_to_ignore, orders_to_process, original_total_buy_size,
                   paired_sales, pos, error, result>>

\* line 81: while o['size']
InWhile == pc = "while" /\ orders[Cur].size # 0

\* line 82 as `if not current_buys: break`: the sale is left short
CannotCover_Breaks ==
    /\ InWhile
    /\ current_buys = <<>>
    /\ pos' = pos + 1
    /\ pc' = "for"
    /\ UNCHANGED <<given, orders, year_to_accounting_method, max_year,
                   orders_to_ignore, orders_to_process, original_total_buy_size,
                   current_buys, paired_sales, accounting_method, error, result>>

\* line 82: assert current_buys, "current_buys can't cover total_sold"
CannotCover ==
    /\ InWhile
    /\ current_buys = <<>>
    /\ pc' = "raised"
    /\ error' = "InsufficientLots"
    /\ UNCHANGED <<given, orders, year_to_accounting_method, max_year,
                   orders_to_ignore, orders_to_process, original_total_buy_size,
                   current_buys, paired_sales, pos, accounting_method, result>>

\* line 85 with < for <=
CoversWhole_Strict(covering_size, sale_size) == covering_size < sale_size

\* line 85
CoversWhole(covering_size, sale_size) == covering_size <= sale_size

\* line 86 without line 87: the copy keeps the size of the sale
WholeSaleCopy_SizeKept(o, covering_size) == DictOf(o)

\* lines 86-87
WholeSaleCopy(o, covering_size) == [DictOf(o) EXCEPT !.size = covering_size]

\* lines 93-94
PartialBuyCopy(covering_buy, o) == [DictOf(covering_buy) EXCEPT !.size = o.size]

\* line 91 as `o['size'] = 0`: the sale counts as covered after one lot
AfterWhole_SaleZeroed(heap, sale, covering_size) ==
    [heap EXCEPT ![sale].size = 0]

\* line 91 with the operands of the subtraction swapped
AfterWhole_Reversed(heap, sale, covering_size) ==
    [heap EXCEPT ![sale].size = covering_size - @]

\* line 91
AfterWhole(heap, sale, covering_size) ==
    [heap EXCEPT ![sale].size = @ - covering_size]

\* lines 97-98 without line 97: the lot keeps its size
AfterPartial_LotKept(heap, sale, buy) ==
    [heap EXCEPT ![sale].size = 0]

\* lines 97-98 without line 98: the sale keeps its size
AfterPartial_SaleKept(heap, sale, buy) ==
    [heap EXCEPT ![buy].size = @ - heap[sale].size]

\* line 97 with += for -=
AfterPartial_Added(heap, sale, buy) ==
    [heap EXCEPT ![buy].size = @ + heap[sale].size, ![sale].size = 0]

\* lines 97-98
AfterPartial(heap, sale, buy) ==
    [heap EXCEPT ![buy].size = @ - heap[sale].size, ![sale].size = 0]

\* lines 88, 95 as paired_sales.insert(0, ...)
Appended_InFront(pairs, pair) == <<pair>> \o pairs

\* lines 88, 95: paired_sales.append
Appended(pairs, pair) == Append(pairs, pair)

\* line 90 as current_buys.pop(): the last lot leaves the ledger
Popped_Last(buys) == SubSeq(buys, 1, Len(buys) - 1)

\* line 90: current_buys.pop(0)
Popped(buys) == Tail(buys)

\* the pairs as they read once the heap has changed: an attribute that is
\* an object of the heap reads as that object
Seen(pairs, heap) ==
    [k \in 1..Len(pairs) |->
        [pairs[k] EXCEPT
            !.sale_order = IF pairs[k].sale_object = NotShared THEN @
                           ELSE DictOf(heap[pairs[k].sale_object]),
            !.buy_order = IF pairs[k].buy_object = NotShared THEN @
                          ELSE DictOf(heap[pairs[k].buy_object])]]

\* lines 88-89 and 95-96: PairedSale asserts (line 37), then the pair is
\* appended and the branch goes on to change the ledger and the heap.
\* sale_address and buy_address are the addresses of the two arguments:
\* NotShared for the copy the branch has made, else the place in the heap
Pair(sale_order, sale_address, buy, buy_order, buy_address, buys_after, heap_after) ==
    IF PairedSaleAssert(sale_order, buy_order)
    THEN /\ paired_sales' = Seen(Appended(paired_sales,
                PairedSale(orders[Cur].time, sale_order, sale_address,
                           orders[buy].time, buy_order, buy_address,
                           accounting_method)), heap_after)
         /\ current_buys' = buys_after
         /\ orders' = heap_after
         /\ UNCHANGED <<pc, error>>
    ELSE /\ pc' = "raised"
         /\ error' = "SizeMismatch"
         /\ UNCHANGED <<paired_sales, current_buys, orders>>

\* lines 83-91: the top lot is used up
CoverWhole ==
    /\ InWhile
    /\ current_buys # <<>>
    /\ LET covering_buy == current_buys[1]
           covering_size == orders[covering_buy].size
       IN /\ CoversWhole(covering_size, orders[Cur].size)
          /\ Pair(WholeSaleCopy(orders[Cur], covering_size), NotShared,
                  covering_buy, DictOf(orders[covering_buy]), covering_buy,
                  Popped(current_buys), AfterWhole(orders, Cur, covering_size))
    /\ UNCHANGED <<given, year_to_accounting_method, max_year,
                   orders_to_ignore, orders_to_process, original_total_buy_size,
                   pos, accounting_method, result>>

\* lines 83-84, 92-98: the top lot covers the rest of the sale and stays open
CoverPartial ==
    /\ InWhile
    /\ current_buys # <<>>
    /\ LET covering_buy == current_buys[1]
           covering_size == orders[covering_buy].size
       IN /\ ~CoversWhole(covering_size, orders[Cur].size)
          /\ Pair(DictOf(orders[Cur]), Cur,
                  covering_buy, PartialBuyCopy(orders[covering_buy], orders[Cur]),
                  NotShared,
                  current_buys, AfterPartial(orders, Cur, covering_buy))
    /\ UNCHANGED <<given, year_to_accounting_method, max_year,
                   orders_to_ignore, orders_to_process, original_total_buy_size,
                   pos, accounting_method, result>>

\* line 81, the size of the sale is 0: on to the next order
SaleCovered ==
    /\ pc = "while"
    /\ orders[Cur].size = 0
    /\ pos' = pos + 1
    /\ pc' = "for"
    /\ UNCHANGED <<given, orders, year_to_accounting_method, max_year,
                   orders_to_ignore, orders_to_process, original_total_buy_size,
                   current_buys, paired_sales, accounting_method, error, result>>

\* line 104
TotalModifiedBuySize(heap, buys) ==
    SumSeq([k \in 1..Len(buys) |-> heap[buys[k]].size])

\* line 105
TotalSaleSize(pairs) ==
    SumSeq([k \in 1..Len(pairs) |-> pairs[k].sale_order.size])

\* line 106: sizes are in half units, the tolerance is 0.000001 units
Validated(original, modified, sold) == (original - modified - sold) * 500000 < 1

\* line 108 without the ignored orders
ModifiedOrders_LotsOnly(buys, ignored) == buys

\* line 108
ModifiedOrders(buys, ignored) == buys \o ignored

\* an entry (date_time, o) of the returned modified_orders
Entry(heap, i) == [time |-> heap[i].time, o |-> DictOf(heap[i])]

\* lines 100-101 left out
Resorted_AsLeft(heap, buys) == buys

\* lines 100-101
Resorted(heap, buys) == SortBy(heap, FIFO, buys)

\* lines 100-109
Return ==
    /\ pc = "for"
    /\ pos > Len(orders_to_process)
    /\ LET resorted == Resorted(orders, current_buys)
           modified_orders == ModifiedOrders(resorted, orders_to_ignore)
       IN /\ current_buys' = resorted
          /\ IF Validated(original_total_buy_size,
                          TotalModifiedBuySize(orders, resorted),
                          TotalSaleSize(paired_sales))
             THEN /\ pc' = "returned"
                  /\ error' = error
                  /\ result' = <<[k \in 1..Len(modified_orders) |->
                                    Entry(orders, modified_orders[k])],
                                 paired_sales>>
             ELSE /\ pc' = "raised"
                  /\ error' = "ConservationViolation"
                  /\ result' = result
    /\ UNCHANGED <<given, orders, year_to_accounting_method, max_year,
                   orders_to_ignore, orders_to_process, original_total_buy_size,
                   paired_sales, pos, accounting_method>>

Next ==
    \/ Partition
    \/ AppendBuy
    \/ LookupFails
    \/ SortForSale
    \/ CannotCover
    \/ CoverWhole
    \/ CoverPartial
    \/ SaleCovered
    \/ Return

\* the pass on valid orders, where the assertion of line 72 cannot fail
Spec == Init /\ [][Next]_vars

NextAny ==
    \/ Next
    \/ SideRejected

\* the pass on any orders
SpecAny == InitAny /\ [][NextAny]_vars

----------------------------------------------------------------------------
(* Vocabulary of the properties *)

RECURSIVE Sum(_)
Sum(s) == IF Len(s) = 0 THEN 0 ELSE s[1] + Sum(Tail(s))

Inputs == 1..Len(given)

\* the order was inside the processing window when the function was called
InWindow(i) == YearOf(given[i].time) <= max_year

OpenQuantity ==
    Sum([k \in 1..Len(current_buys) |-> orders[current_buys[k]].size])

MatchedBuyQuantity ==
    Sum([k \in 1..Len(paired_sales) |-> paired_sales[k].buy_order.size])

\* BUY orders the for loop has gone past
BoughtSoFar ==
    Sum([k \in 1..Len(orders_to_process) |->
           IF k < pos /\ given[orders_to_process[k]].side = "BUY"
           THEN given[orders_to_process[k]].size ELSE 0])

BoughtInWindow ==
    Sum([i \in Inputs |->
           IF InWindow(i) /\ given[i].side = "BUY" THEN given[i].size ELSE 0])

\* quantity of the pairs emitted for the sale with input position i
SaleMatched(i) ==
    Sum([k \in 1..Len(paired_sales) |->
           IF paired_sales[k].sale_order.id = given[i].id
           THEN paired_sales[k].sale_order.size ELSE 0])

PairsOf(i) == {k \in 1..Len(paired_sales) : paired_sales[k].sale_order.id = given[i].id}

\* some open lot has been consumed in part
SomeLotSplit ==
    \E k \in 1..Len(current_buys) :
        orders[current_buys[k]].size < given[current_buys[k]].size

----------------------------------------------------------------------------
(* C1 *)

\* C1: conservation. In every state of the pass the quantity of the open
\* lots plus the quantity of the buy fragments of the emitted pairs equals
\* the quantity of the in-window BUY orders processed so far; at the return
\* that is the quantity of all in-window BUY orders, and the validation of
\* line 106 never fails.
C1_Conservation ==
    /\ OpenQuantity + MatchedBuyQuantity = BoughtSoFar
    /\ error # "ConservationViolation"
    /\ pc = "returned" =>
          /\ BoughtSoFar = BoughtInWindow
          /\ original_total_buy_size = BoughtInWindow

C1_Witness ==
    /\ pc = "returned"
    /\ Len(paired_sales) >= 2
    /\ SomeLotSplit
    /\ BoughtInWindow > OpenQuantity

----------------------------------------------------------------------------
(* C2 *)

\* C2: full coverage. When the run has returned, the pairs emitted for each
\* in-window SELL add up to the quantity the SELL had in the input; and a
\* SELL the for loop has gone past has a remaining size of exactly 0.
C2_FullCoverage ==
    /\ pc = "returned" =>
          \A i \in Inputs :
              (InWindow(i) /\ given[i].side = "SELL") => SaleMatched(i) = given[i].size
    /\ \A k \in 1..Len(orders_to_process) :
          (k < pos /\ given[orders_to_process[k]].side = "SELL")
              => orders[orders_to_process[k]].size = 0

C2_Witness ==
    /\ pc = "returned"
    /\ \E i \in Inputs :
          /\ given[i].side = "SELL"
          /\ Cardinality(PairsOf(i)) = 2
          /\ SaleMatched(i) = 3
    /\ \E j \in Inputs : given[j].side = "SELL" /\ Cardinality(PairsOf(j)) = 1

----------------------------------------------------------------------------
(* C3 *)

\* C3: no zero or negative fragments. When every order of the input has a
\* quantity above 0, every emitted pair has a quantity above 0, its sale
\* fragment and its buy fragment have the same quantity, and the assertion
\* of PairedSale (line 37) never fails.
C3_PositiveFragments ==
    (\A i \in Inputs : given[i].size > 0) =>
        /\ \A k \in 1..Len(paired_sales) :
              /\ paired_sales[k].sale_order.size > 0
              /\ paired_sales[k].sale_order.size = paired_sales[k].buy_order.size
        /\ error # "SizeMismatch"

\* a lot was used up by a sale of exactly its size and a later sale was paired
C3_Witness ==
    /\ \A i \in Inputs : given[i].size > 0
    /\ Len(paired_sales) >= 2
    /\ paired_sales[1].buy_order.size = paired_sales[1].sale_order.size
    /\ \E i \in Inputs :
          /\ given[i].id = paired_sales[1].sale_order.id
          /\ given[i].size = paired_sales[1].sale_order.size
    /\ \E j \in Inputs :
          /\ given[j].id = paired_sales[1].buy_order.id
          /\ given[j].size = paired_sales[1].buy_order.size
    /\ paired_sales[2].sale_order.id # paired_sales[1].sale_order.id

----------------------------------------------------------------------------
(* C4, C5 *)

\* a step that emits a pair, and the pair it emits
Draws == Len(paired_sales') = Len(paired_sales) + 1

Drawn == paired_sales'[Len(paired_sales')]

\* the policy the configuration gives to the year of a sale date
PolicyOf(sale_date) ==
    IF YearOf(sale_date) \in DOMAIN year_to_accounting_method
    THEN year_to_accounting_method[YearOf(sale_date)] ELSE NoMethod

\* (timestamp, id) of a is no later than that of b
NotAfter(ta, ia, tb, ib) == ta < tb \/ (ta = tb /\ ia <= ib)

SameSale(k, l) == paired_sales[k].sale_order.id = paired_sales[l].sale_order.id

C4_Step ==
    (Draws /\ PolicyOf(Drawn.sale_date) = FIFO) =>
        \E k \in 1..Len(current_buys) :
            /\ orders[current_buys[k]].id = Drawn.buy_order.id
            /\ orders[current_buys[k]].time = Drawn.buy_date
            /\ \A j \in 1..Len(current_buys) :
                  NotAfter(Drawn.buy_date, Drawn.buy_order.id,
                           orders[current_buys[j]].time, orders[current_buys[j]].id)

C4_Ascending ==
    \A k, l \in 1..Len(paired_sales) :
        (k < l /\ SameSale(k, l) /\ PolicyOf(paired_sales[k].sale_date) = FIFO) =>
            /\ NotAfter(paired_sales[k].buy_date, paired_sales[k].buy_order.id,
                        paired_sales[l].buy_date, paired_sales[l].buy_order.id)
            /\ paired_sales[k].buy_order.id # paired_sales[l].buy_order.id

\* C4: FIFO. Every pair of a SELL whose year maps to FIFO is drawn from
\* the open lot with the smallest (timestamp, id) among the lots open at
\* that draw, and the lots one such SELL consumes are in ascending
\* (timestamp, id) order, also after HIFO sales.
C4_FIFO == []C4_Ascending /\ [][C4_Step]_vars

\* a FIFO sale drew a lot older than the lot an earlier HIFO sale had drawn,
\* and went on to a second lot
C4_Witness ==
    \E k, l, m \in 1..Len(paired_sales) :
        /\ k < l /\ l < m
        /\ paired_sales[k].accounting_method = HIFO
        /\ PolicyOf(paired_sales[l].sale_date) = FIFO
        /\ paired_sales[l].accounting_method = FIFO
        /\ ~SameSale(k, l) /\ SameSale(l, m)
        /\ paired_sales[l].buy_date < paired_sales[k].buy_date

C5_Step ==
    (Draws /\ PolicyOf(Drawn.sale_date) = HIFO) =>
        \E k \in 1..Len(current_buys) :
            /\ orders[current_buys[k]].id = Drawn.buy_order.id
            /\ orders[current_buys[k]].price = Drawn.buy_order.price
            /\ \A j \in 1..Len(current_buys) :
                  orders[current_buys[j]].price <= Drawn.buy_order.price

C5_Descending ==
    \A k, l \in 1..Len(paired_sales) :
        (k < l /\ SameSale(k, l) /\ PolicyOf(paired_sales[k].sale_date) = HIFO) =>
            paired_sales[k].buy_order.price >= paired_sales[l].buy_order.price

\* C5: HIFO. Every pair of a SELL whose year maps to HIFO is drawn from an
\* open lot whose price is the maximum over the lots open at that draw, a
\* lot consumed in part by an earlier sale and the lots bought since
\* included, and the lots one such SELL consumes are in non-increasing
\* price order.
C5_HIFO == []C5_Descending /\ [][C5_Step]_vars

\* a HIFO sale drew the rest of a lot an earlier sale had consumed in part,
\* then a cheaper lot bought after that earlier sale
C5_Witness ==
    \E k, l, m \in 1..Len(paired_sales) :
        /\ k < l /\ l < m
        /\ ~SameSale(k, l) /\ SameSale(l, m)
        /\ paired_sales[l].accounting_method = HIFO
        /\ PolicyOf(paired_sales[l].sale_date) = HIFO
        /\ paired_sales[k].buy_order.id = paired_sales[l].buy_order.id
        /\ paired_sales[m].buy_date > paired_sales[k].sale_date
        /\ paired_sales[m].buy_order.price < paired_sales[l].buy_order.price

----------------------------------------------------------------------------
(* C6 *)

\* the holding period of a pair in seconds
Held(p) == p.sale_date - p.buy_date

\* the holding period is n whole days
HeldDays(p, n) == n * SecondsPerDay <= Held(p) /\ Held(p) < (n + 1) * SecondsPerDay

GainOf(p) == p.sale_order.size * p.sale_order.price
                 - p.buy_order.size * p.buy_order.price

\* C6: holding period. Of every pair the proceeds are q * sale price, the
\* cost basis q * buy price and the gain their difference; the pair is
\* long-term exactly when its holding period is 366 whole days or more (365
\* whole days is short-term); a long-term pair has the whole gain in
\* long_term_gains and 0 in short_term_gains, a short-term pair the reverse.
C6_HoldingPeriod ==
    \A k \in 1..Len(paired_sales) :
        LET p == paired_sales[k]
        IN /\ p.net_proceeds = p.sale_order.size * p.sale_order.price
           /\ p.cost_basis = p.buy_order.size * p.buy_order.price
           /\ IF Held(p) >= 366 * SecondsPerDay
              THEN p.long_term_gains = GainOf(p) /\ p.short_term_gains = 0
              ELSE p.short_term_gains = GainOf(p) /\ p.long_term_gains = 0
           /\ HeldDays(p, 365) => p.long_term_gains = 0
           /\ HeldDays(p, 366) => p.short_term_gains = 0

\* one pair held 365 whole days (and a half), one held 366 days
C6_Witness ==
    \E k, l \in 1..Len(paired_sales) :
        /\ HeldDays(paired_sales[k], 365)
        /\ paired_sales[k].short_term_gains > 0
        /\ HeldDays(paired_sales[l], 366)
        /\ paired_sales[l].long_term_gains > 0

----------------------------------------------------------------------------
(* C7 *)

ValueOf(o) == [time |-> o.time, side |-> o.side, size |-> o.size, price |-> o.price]

\* BUY 1.0 @ 100 on 2020-01-01, BUY 1.0 @ 200 on 2020-06-01,
\* SELL 1.5 @ 300 on 2021-02-01
ScenarioOrders ==
    {[time |-> Jan01_2020, side |-> "BUY", size |-> 2, price |-> 100],
     [time |-> Jun01_2020, side |-> "BUY", size |-> 2, price |-> 200],
     [time |-> Feb01_2021, side |-> "SELL", size |-> 3, price |-> 300]}

IsScenario ==
    /\ Len(given) = 3
    /\ {ValueOf(given[i]) : i \in Inputs} = ScenarioOrders
    /\ PolicyOf(Feb01_2021) = HIFO
    /\ max_year >= 2021

\* C7: the HIFO scenario. The run does not fail; its first pair takes 1.0
\* from the 200 lot, which leaves the ledger, with a gain of 100
\* short-term; its second pair takes 0.5 from the 100 lot with a gain of
\* 100 long-term; it returns exactly these two pairs and one open lot, the
\* 100 lot with 0.5 left. (Sizes in half units, gains in half dollars.)
C7_Scenario ==
    IsScenario =>
        /\ pc # "raised"
        /\ Len(paired_sales) <= 2
        /\ Len(paired_sales) >= 1 =>
              /\ paired_sales[1].sale_order.size = 2
              /\ paired_sales[1].buy_order.size = 2
              /\ paired_sales[1].buy_order.price = 200
              /\ paired_sales[1].buy_date = Jun01_2020
              /\ paired_sales[1].short_term_gains = 200
              /\ paired_sales[1].long_term_gains = 0
              /\ \A k \in 1..Len(current_buys) : orders[current_buys[k]].price # 200
        /\ Len(paired_sales) = 2 =>
              /\ paired_sales[2].sale_order.size = 1
              /\ paired_sales[2].buy_order.size = 1
              /\ paired_sales[2].buy_order.price = 100
              /\ paired_sales[2].buy_date = Jan01_2020
              /\ paired_sales[2].long_term_gains = 200
              /\ paired_sales[2].short_term_gains = 0
        /\ pc = "returned" =>
              /\ Len(result[2]) = 2
              /\ result[2] = paired_sales
              /\ Len(result[1]) = 1
              /\ result[1][1].time = Jan01_2020
              /\ result[1][1].o.side = "BUY"
              /\ result[1][1].o.price = 100
              /\ result[1][1].o.size = 1

C7_Witness == IsScenario /\ pc = "returned" /\ Len(paired_sales) = 2

----------------------------------------------------------------------------
(* C8 *)

\* the quantity open when the for loop reaches position k, as the input
\* gives it: what was bought before minus what was sold before
OpenAt(k) ==
    Sum([j \in 1..Len(orders_to_process) |->
           IF j >= k THEN 0
           ELSE IF given[orders_to_process[j]].side = "BUY"
                THEN given[orders_to_process[j]].size
                ELSE 0 - given[orders_to_process[j]].size])

Exceeds(k) ==
    /\ given[orders_to_process[k]].side = "SELL"
    /\ given[orders_to_process[k]].size > OpenAt(k)

\* the pass has begun to cover the order at position k
Entered(k) ==
    \/ k < pos
    \/ k = pos /\ pc = "while"
    \/ k = pos /\ pc = "raised" /\ error \in {"InsufficientLots", "SizeMismatch"}

----------------------------------------------------------------------------
(* C10 *)

\* the order is after the window
Late(i) == YearOf(given[i].time) > max_year

NumLate == Cardinality({i \in Inputs : Late(i)})

\* the entry of the returned list is the order i as it was given
IsGiven(e, i) ==
    /\ e.time = given[i].time
    /\ e.o.id = given[i].id
    /\ e.o.side = given[i].side
    /\ e.o.size = given[i].size
    /\ e.o.price = given[i].price

InSeq(x, seq) == \E k \in 1..Len(seq) : seq[k] = x

\* C10: window cutoff. An order whose year is after max_year is never in
\* the ledger, never processed, never changed, and no pair refers to it;
\* the returned list ends with all these orders, as they were given, after
\* the open lots, which are all in-window BUY orders.
C10_WindowCutoff ==
    /\ \A i \in Inputs :
          Late(i) =>
              /\ ~InSeq(i, current_buys)
              /\ ~InSeq(i, orders_to_process)
              /\ orders[i] = given[i]
              /\ \A k \in 1..Len(paired_sales) :
                    /\ paired_sales[k].sale_order.id # given[i].id
                    /\ paired_sales[k].buy_order.id # given[i].id
    /\ pc = "returned" =>
          LET modified == result[1]
              lots == Len(modified) - NumLate
          IN /\ lots >= 0
             /\ \A i \in Inputs :
                   Late(i) => \E k \in (lots + 1)..Len(modified) : IsGiven(modified[k], i)
             /\ \A k \in 1..lots :
                   \E i \in Inputs :
                       /\ ~Late(i)
                       /\ given[i].side = "BUY"
                       /\ modified[k].o.id = given[i].id
                       /\ modified[k].o.size > 0
             /\ \A k \in 1..Len(result[2]) :
                   \A i \in Inputs :
                       Late(i) => /\ result[2][k].sale_order.id # given[i].id
                                  /\ result[2][k].buy_order.id # given[i].id

\* a BUY and a SELL after the window came back behind an open lot, and a
\* pair was emitted
C10_Witness ==
    /\ pc = "returned"
    /\ \E i, j \in Inputs :
          /\ Late(i) /\ given[i].side = "BUY"
          /\ Late(j) /\ given[j].side = "SELL"
    /\ Len(result[1]) = NumLate + 1
    /\ Len(result[2]) >= 1

----------------------------------------------------------------------------
(* C11 *)

\* an order inside the window has a size of 0 or less or an unknown side
InvalidInput ==
    \E i \in Inputs :
        /\ InWindow(i)
        /\ (given[i].size <= 0 \/ given[i].side \notin {"BUY", "SELL"})

\* C11: invalid input. A run on an input with an order of non-positive
\* quantity or of a side other than BUY and SELL never returns, and it
\* stops before matching: no pair is ever created and no order quantity
\* ever changed.
C11_InvalidRejected ==
    InvalidInput =>
        /\ pc # "returned"
        /\ paired_sales = <<>>
        /\ orders = given

----------------------------------------------------------------------------
(* C12 *)

\* what a pair shows of itself
Shown(p) ==
    <<p.sale_date, p.sale_order.id, p.sale_order.price, p.sale_order.size,
      p.buy_date, p.buy_order.id, p.buy_order.price, p.buy_order.size,
      p.net_proceeds, p.cost_basis, p.short_term_gains, p.long_term_gains>>

\* the smaller of two quantities
Least(a, b) == IF a <= b THEN a ELSE b

C12_Step ==
    /\ \A k \in 1..Len(paired_sales) :
          /\ k <= Len(paired_sales')
          /\ Shown(paired_sales'[k]) = Shown(paired_sales[k])
    /\ Draws =>
          LET sale == orders[orders_to_process[pos]]
              lot == orders[current_buys[1]]
              q == Least(sale.size, lot.size)
          IN Shown(Drawn) =
                <<sale.time, sale.id, sale.price, q,
                  lot.time, lot.id, lot.price, q,
                  q * sale.price, q * lot.price,
                  IF sale.time - lot.time >= 366 * SecondsPerDay
                  THEN 0 ELSE q * sale.price - q * lot.price,
                  IF sale.time - lot.time >= 366 * SecondsPerDay
                  THEN q * sale.price - q * lot.price ELSE 0>>

\* C12: immutability of pairs. A pair shows what was emitted, the
\* fragments of the sale and of the lot as they were drawn and the amounts
\* computed from them, whatever the rest of the step then takes off the
\* sale order and the lot; and it stays in the list and shows the same
\* after every later step.
C12_Immutable == [][C12_Step]_vars

\* a pair emitted from the live sale order, which was then set to 0, and
\* from a part of a lot, which was then reduced and later drawn from again
C12_Witness ==
    \E k, l \in 1..Len(paired_sales) :
        /\ k < l
        /\ ~SameSale(k, l)
        /\ paired_sales[k].buy_order.id = paired_sales[l].buy_order.id
        /\ \E i \in Inputs :
              /\ given[i].id = paired_sales[k].sale_order.id
              /\ orders[i].size = 0
              /\ paired_sales[k].sale_order.size > 0
        /\ \E j \in Inputs :
              /\ given[j].id = paired_sales[k].buy_order.id
              /\ paired_sales[k].buy_order.size < given[j].size
              /\ orders[j].size < given[j].size

----------------------------------------------------------------------------
(* C13 *)

\* the open lots among the returned orders: all but the orders after the
\* window
ReturnedLots == SubSeq(result[1], 1, Len(result[1]) - NumLate)

\* C13: canonical output order. A run that returns gives the open lots in
\* ascending (timestamp, id) order, whatever the policy of its last sale
\* and also without any sale.
C13_CanonicalOrder ==
    pc = "returned" =>
        \A k, l \in 1..Len(ReturnedLots) :
            k < l =>
                /\ NotAfter(ReturnedLots[k].time, ReturnedLots[k].o.id,
                            ReturnedLots[l].time, ReturnedLots[l].o.id)
                /\ ReturnedLots[k].o.id # ReturnedLots[l].o.id

\* the last sale was HIFO and left a dearer, younger lot open with a
\* cheaper, older one
C13_Witness ==
    /\ pc = "returned"
    /\ Len(paired_sales) >= 1
    /\ paired_sales[Len(paired_sales)].accounting_method = HIFO
    /\ Len(ReturnedLots) >= 2
    /\ ReturnedLots[1].o.price < ReturnedLots[2].o.price
    /\ ReturnedLots[1].time < ReturnedLots[2].time

----------------------------------------------------------------------------
(* C14 *)

C14_Step ==
    Draws =>
        LET sale == orders_to_process[pos]
            top == current_buys[1]
            q == Least(orders[sale].size, orders[top].size)
        IN /\ Drawn.buy_order.id = orders[top].id
           /\ Drawn.buy_date = orders[top].time
           /\ Drawn.buy_order.price = orders[top].price
           /\ Drawn.buy_order.size = q
           /\ Drawn.sale_order.size = q
           /\ orders'[sale].size = orders[sale].size - q
           /\ IF q = orders[top].size
              THEN /\ Len(current_buys') = Len(current_buys) - 1
                   /\ \A k \in 1..Len(current_buys') :
                         current_buys'[k] = current_buys[k + 1]
              ELSE /\ current_buys' = current_buys
                   /\ orders'[top] = [orders[top] EXCEPT !.size = @ - q]
           /\ \A k \in 2..Len(current_buys) :
                 orders'[current_buys[k]] = orders[current_buys[k]]

\* C14: the consume step. A draw takes q, the smaller of the remaining
\* sale quantity and the quantity of the top lot, from the top lot: the
\* buy fragment has the id, timestamp and price of the top lot and the
\* quantity q; a top lot of quantity q leaves the ledger and the others
\* keep their order, else the top lot stays where it is with the same id,
\* timestamp and price and q less; no other lot changes.
C14_Consume == [][C14_Step]_vars

\* one sale used up a lot while another lot was open, then took a part of
\* that other lot, which is still open
C14_Witness ==
    \E k, l \in 1..Len(paired_sales) :
        /\ k < l /\ SameSale(k, l)
        /\ \E i \in Inputs :
              /\ given[i].id = paired_sales[k].buy_order.id
              /\ given[i].size = paired_sales[k].buy_order.size
              /\ ~InSeq(i, current_buys)
        /\ \E j \in Inputs :
              /\ given[j].id = paired_sales[l].buy_order.id
              /\ InSeq(j, current_buys)
              /\ orders[j].size = given[j].size - paired_sales[l].buy_order.size
              /\ orders[j].size > 0

----------------------------------------------------------------------------
(* C15 *)

ValidInput ==
    /\ \A i \in Inputs : given[i].size > 0
    /\ \A i, j \in Inputs : given[i].id = given[j].id => i = j

\* C15: the ledger is well formed. For an input of positive quantities and
\* unique ids, in every state the ledger holds BUY orders of the window,
\* each at most once, each with a quantity above 0 and no greater than the
\* order had in the input, and the SELL being covered has no negative
\* remaining quantity.
C15_WellFormed ==
    ValidInput =>
        /\ \A k \in 1..Len(current_buys) :
              /\ given[current_buys[k]].side = "BUY"
              /\ InWindow(current_buys[k])
              /\ orders[current_buys[k]].size > 0
              /\ orders[current_buys[k]].size <= given[current_buys[k]].size
        /\ \A k, l \in 1..Len(current_buys) :
              current_buys[k] = current_buys[l] => k = l
        /\ \A i \in Inputs : given[i].side = "SELL" => orders[i].size >= 0

\* in the middle of a sale: a lot is used up, more is to cover, a lot is open
C15_Witness ==
    /\ ValidInput
    /\ pc = "while"
    /\ orders[Cur].size > 0
    /\ SaleMatched(Cur) > 0
    /\ Len(current_buys) >= 1

----------------------------------------------------------------------------
(* C16 *)

\* the BUY order i has been in the ledger and has left it
Closed(i) ==
    /\ given[i].side = "BUY"
    /\ \E k \in 1..Len(orders_to_process) : k < pos /\ orders_to_process[k] = i
    /\ ~InSeq(i, current_buys)

C16_Step ==
    \A i \in Inputs :
        /\ given[i].side = "BUY" => orders'[i].size <= orders[i].size
        /\ Closed(i) =>
              /\ ~InSeq(i, current_buys')
              /\ Draws => Drawn.buy_order.id # given[i].id

\* C16: lot lifecycle. No step increases the quantity of a lot, and a lot
\* that has left the ledger is not in it after any later step and no later
\* pair is drawn from it.
C16_Lifecycle == [][C16_Step]_vars

\* a lot was consumed in part, then used up by a later sale, which went on
\* to draw from another lot
C16_Witness ==
    \E k, l, n \in 1..Len(paired_sales) :
        /\ k < l /\ l < n
        /\ ~SameSale(k, l) /\ SameSale(l, n)
        /\ paired_sales[k].buy_order.id = paired_sales[l].buy_order.id
        /\ paired_sales[n].buy_order.id # paired_sales[l].buy_order.id
        /\ \E i \in Inputs :
              given[i].id = paired_sales[l].buy_order.id /\ Closed(i)

----------------------------------------------------------------------------
(* C17 *)

Terminated == pc \in {"returned", "raised"}

\* an iteration of the while loop takes from the sale or from the ledger
C17_Step ==
    (pc = "while" /\ pc' = "while" /\ orders' # orders) =>
        \/ /\ orders'[orders_to_process[pos]].size < orders[orders_to_process[pos]].size
           /\ Len(current_buys') <= Len(current_buys)
        \/ /\ Len(current_buys') < Len(current_buys)
           /\ orders'[orders_to_process[pos]].size <= orders[orders_to_process[pos]].size

C17_Iterates ==
    (pc = "while" /\ pc' = "while") => (Draws /\ orders' # orders)

\* the orders of the window the for loop has not finished with
Pending ==
    IF pc = "start" THEN {i \in Inputs : InWindow(i)}
    ELSE {orders_to_process[k] : k \in pos..Len(orders_to_process)}

PendingSales ==
    Sum([i \in Inputs |->
           IF i \in Pending /\ given[i].side = "SELL" THEN orders[i].size ELSE 0])

\* a bound on the number of steps the pass has yet to take
StepsLeft ==
    IF Terminated THEN 0
    ELSE (IF pc = "start" THEN 2 ELSE IF pc = "for" THEN 1 ELSE 0)
         + 2 * Cardinality(Pending) + Len(current_buys) + PendingSales

\* the statement the pass stands at can be executed: the guards of the
\* branches of lines 54-109, one for each place the pass can stand at
HasStep ==
    \/ pc = "start"
    \/ /\ pc = "for"
       /\ \/ pos > Len(orders_to_process)
          \/ /\ pos <= Len(orders_to_process)
             /\ orders[orders_to_process[pos]].side \in {"BUY", "SELL"}
    \/ /\ pc = "while"
       /\ pos <= Len(orders_to_process)
       /\ \/ orders[orders_to_process[pos]].size = 0
          \/ current_buys = <<>>
          \/ /\ Len(current_buys) >= 1
             /\ current_buys[1] \in Inputs

\* C17: termination. On an input of positive quantities the pass ends, by
\* returning or by raising: every step makes the natural number StepsLeft
\* smaller, and a pass that has not ended has a step to take. Every
\* iteration of the loop that covers a SELL makes the remaining quantity of
\* the sale or the number of open lots strictly smaller, and neither
\* greater.
C17_Terminates ==
    /\ [](StepsLeft >= 0)
    /\ [](~Terminated => HasStep)
    /\ [][StepsLeft' < StepsLeft]_vars
    /\ [][C17_Step /\ C17_Iterates]_vars

\* a pass that went through the covering loop three times, raised or
\* returned, and has no step left
C17_Witness ==
    /\ Terminated
    /\ ~HasStep
    /\ Len(paired_sales) >= 3
    /\ SomeLotSplit

----------------------------------------------------------------------------
(* C18 *)

\* the open lots, as the ledger lists them
Lot(k) == orders[current_buys[k]]

\* the highest price among the open lots
TopPrice == CHOOSE p \in {Lot(k).price : k \in 1..Len(current_buys)} :
                \A k \in 1..Len(current_buys) : Lot(k).price <= p

\* two open lots of one price stand in ascending (timestamp, id) order
C18_TieOrder ==
    \A k, l \in 1..Len(current_buys) :
        (k < l /\ Lot(k).price = Lot(l).price) =>
            /\ NotAfter(Lot(k).time, Lot(k).id, Lot(l).time, Lot(l).id)
            /\ Lot(k).id # Lot(l).id

\* a HIFO draw takes the oldest of the lots of the highest price
C18_Step ==
    (Draws /\ PolicyOf(Drawn.sale_date) = HIFO) =>
        /\ Drawn.buy_order.price = TopPrice
        /\ \A k \in 1..Len(current_buys) :
              Lot(k).price = TopPrice =>
                  NotAfter(Drawn.buy_date, Drawn.buy_order.id, Lot(k).time, Lot(k).id)

\* C18: HIFO tie-break. When a SELL is covered under HIFO and several open
\* lots have the highest price, the lot drawn is the one with the smallest
\* (timestamp, id) among them; in every state of the ledger two open lots
\* of equal price stand in ascending (timestamp, id) order, whatever HIFO
\* and FIFO sales came before.
C18_TieBreak == []C18_TieOrder /\ [][C18_Step]_vars

\* after a FIFO sale, a HIFO sale drew two lots of one price, the older
\* first
C18_Witness ==
    \E k, l, m \in 1..Len(paired_sales) :
        /\ k < l /\ l < m
        /\ ~SameSale(k, l) /\ SameSale(l, m)
        /\ paired_sales[k].accounting_method = FIFO
        /\ paired_sales[l].accounting_method = HIFO
        /\ PolicyOf(paired_sales[l].sale_date) = HIFO
        /\ paired_sales[l].buy_order.price = paired_sales[m].buy_order.price
        /\ paired_sales[l].buy_order.id # paired_sales[m].buy_order.id
        /\ paired_sales[l].buy_date < paired_sales[m].buy_date

----------------------------------------------------------------------------
(* C19 *)

\* (timestamp, id) of a is strictly smaller than that of b
StrictlyBefore(ta, ia, tb, ib) == ta < tb \/ (ta = tb /\ ia < ib)

\* C19: chronological correctness. In every pair the (timestamp, id) of
\* the buy fragment is strictly smaller than that of the sale, in whatever
\* order the input list arrives: no sale is covered by a lot bought after
\* it, and the holding period of a pair is never negative.
C19_Chronological ==
    \A k \in 1..Len(paired_sales) :
        /\ StrictlyBefore(paired_sales[k].buy_date, paired_sales[k].buy_order.id,
                          paired_sales[k].sale_date, paired_sales[k].sale_order.id)
        /\ paired_sales[k].sale_date - paired_sales[k].buy_date >= 0

\* a sale was covered and the pass returned although the input list had,
\* in front of that sale, a BUY of the very timestamp of the sale that
\* comes after it by id
C19_Witness ==
    /\ pc = "returned"
    /\ \E k \in 1..Len(paired_sales) : \E h, j \in Inputs :
          /\ given[j].id = paired_sales[k].sale_order.id
          /\ h < j
          /\ given[h].side = "BUY" /\ InWindow(h)
          /\ given[h].time = given[j].time /\ given[h].id > given[j].id

----------------------------------------------------------------------------
(* C20 *)

\* the sales of the pairs are in non-decreasing (timestamp, id) order
C20_BySale ==
    \A k, l \in 1..Len(paired_sales) :
        k < l => NotAfter(paired_sales[k].sale_date, paired_sales[k].sale_order.id,
                          paired_sales[l].sale_date, paired_sales[l].sale_order.id)

\* the pairs of one SELL stand next to each other
C20_Contiguous ==
    \A k, l, n \in 1..Len(paired_sales) :
        (k < n /\ n < l /\ SameSale(k, l)) => SameSale(k, n)

\* a pair is emitted behind the pairs emitted before it, which stay in
\* their places, and it is a pair of the sale the loop is covering
C20_Step ==
    /\ Len(paired_sales') >= Len(paired_sales)
    /\ \A k \in 1..Len(paired_sales) :
          /\ paired_sales'[k].sale_order.id = paired_sales[k].sale_order.id
          /\ paired_sales'[k].buy_order.id = paired_sales[k].buy_order.id
          /\ paired_sales'[k].buy_order.size = paired_sales[k].buy_order.size
    /\ Draws => /\ pc = "while"
                /\ Drawn.sale_order.id = given[orders_to_process[pos]].id
                /\ Drawn.buy_order.id = given[current_buys[1]].id

\* C20: emission order. The list of pairs is ordered by sale: the sale
\* (timestamp, id) of successive pairs does not decrease, the pairs of one
\* SELL are contiguous, and within one SELL the pairs stand in the order in
\* which the lots were drawn, each new pair behind the earlier ones.
C20_EmissionOrder == [](C20_BySale /\ C20_Contiguous) /\ [][C20_Step]_vars

\* two pairs of one sale, drawn from two lots, then a pair of a later sale
C20_Witness ==
    \E k, l, n \in 1..Len(paired_sales) :
        /\ k < l /\ l < n
        /\ SameSale(k, l) /\ ~SameSale(l, n)
        /\ paired_sales[k].buy_order.id # paired_sales[l].buy_order.id
        /\ paired_sales[l].sale_date < paired_sales[n].sale_date

====
